---- MODULE Spec2Model ----
(***************************************************************************)
(* Model of the tab-move commands of chrome-shortcuts (src/src/commands.js *)
(* and src/src/utils.js): moveTabLeft/moveTabRight (moveTabDirection),     *)
(* moveTabFirst/moveTabLast (moveTabEdgeDirection) and moveTabsToWindow.   *)
(*                                                                         *)
(* The browser (the host) holds the windows; a command reads a snapshot,   *)
(* issues host calls, and the host applies them in the order they were     *)
(* issued.  Chrome indices are 0-based; sequences here are 1-based, so a   *)
(* tab at position i of a window has index i - 1.                          *)
(***************************************************************************)
EXTENDS Integers, Sequences, FiniteSets, TLC

\* ------------------------------------------------------------ bounds
MaxTabs == 4        \* tabs of the source window
MaxGroups == 2      \* tab groups of the source window
MaxDestTabs == 2    \* tabs already in the destination window
MaxLen == 3         \* length of the arrays handed to partition and chunk
MaxElement == 2     \* the elements of those arrays are 1..MaxElement

\* ------------------------------------------------------------ constants
TAB_GROUP_ID_NONE == -1
Backward == -1
Forward == 1
Direction == {Backward, Forward}

SourceWindow == "w1"
DestWindow == "w2"
NoWindow == ""      \* a host call that names no window
WindowIds == {SourceWindow, DestWindow}
DestTabId(i) == 100 + i

VARIABLES
  windows,     \* host: window id -> sequence of tabs [id, pinned, groupId, highlighted]
  collapsed,   \* host: group id -> collapsed flag
  focused,     \* host: the focused window
  cx,          \* the command's context: cx.tab, as handed to the command
  cmd,         \* the command being run: [name, arg]
  pc,          \* "idle", then the command's position, then "done"
  outcome,     \* "pending", "resolved" (the command returned), "rejected" (it threw)
  pending,     \* host calls issued and not yet applied, in issue order
  issued,      \* every host call the command issued, in issue order
  movedTabChunks, \* moveTabsToWindow: slot -> the Tab indices its promise resolved to
  snap,        \* the windows when the command started
  rejected,    \* host calls the host rejected, in the order it rejected them
  arrayArg,    \* utils.js: the array handed to partition or chunk
  predicateArg, \* utils.js: the predicate handed to partition
  callbackArg, \* utils.js: the callback handed to chunk
  called,      \* utils.js: the function that was called, "none" before
  result,      \* utils.js: what the call returned
  waiting,     \* waitForNavigation: the tabId and eventType it was called with
  listeners,   \* the event types fireAndForget is a listener of
  resolved,    \* how many times resolve() was called
  delivered    \* the navigation events the browser delivered, in order

navigationVars == <<waiting, listeners, resolved, delivered>>
utilsVars == <<arrayArg, predicateArg, callbackArg, called, result, navigationVars>>
commandVars == <<windows, collapsed, focused, cx, cmd, pc, outcome, pending, issued,
                 movedTabChunks, snap, rejected>>
vars == <<windows, collapsed, focused, cx, cmd, pc, outcome, pending, issued,
          movedTabChunks, snap, rejected, arrayArg, predicateArg, callbackArg, called, result,
          waiting, listeners, resolved, delivered>>

\* ------------------------------------------------------------ sequences
Min(a, b) == IF a < b THEN a ELSE b
Max(a, b) == IF a > b THEN a ELSE b

Remove(s, i) == SubSeq(s, 1, i - 1) \o SubSeq(s, i + 1, Len(s))
InsertAt(s, i, e) == SubSeq(s, 1, i - 1) \o <<e>> \o SubSeq(s, i, Len(s))
InsertSeqAt(s, i, b) == SubSeq(s, 1, i - 1) \o b \o SubSeq(s, i, Len(s))
toReversed(s) == [i \in 1..Len(s) |-> s[Len(s) + 1 - i]]
\* Array.prototype.at with the two indices the commands use: 0 and -1.
At(s, i) == IF i = 0 THEN s[1] ELSE s[Len(s)]
Range(s) == {s[i] : i \in 1..Len(s)}

RECURSIVE Flatten(_)
Flatten(ss) == IF ss = <<>> THEN <<>> ELSE Head(ss) \o Flatten(Tail(ss))

\* ------------------------------------------------------------ utils.js
\* predicate and callback are functions of the elements.  A JavaScript
\* function that returns undefined for an element is a function that has no
\* value for it: the element is outside its domain.
Undefined == -2
Null == -3
isUndefined(f, element) == element \notin DOMAIN f
\* if (predicate(element)): undefined is falsy.
isTruthy(f, element) == IF isUndefined(f, element) THEN FALSE ELSE f[element]
keyOf(f, element) == IF isUndefined(f, element) THEN Undefined ELSE f[element]

\* partition adding the falsy elements at the front of rightPartition.
partitionUnshift(array, predicate) ==
  <<SelectSeq(array, LAMBDA e : isTruthy(predicate, e)),
    toReversed(SelectSeq(array, LAMBDA e : ~isTruthy(predicate, e)))>>

partition(array, predicate) ==
  LET RECURSIVE loop(_, _, _)
      loop(i, leftPartition, rightPartition) ==
        IF i > Len(array) THEN <<leftPartition, rightPartition>>
        ELSE IF isTruthy(predicate, array[i])
             THEN loop(i + 1, Append(leftPartition, array[i]), rightPartition)
             ELSE loop(i + 1, leftPartition, Append(rightPartition, array[i]))
  IN loop(1, <<>>, <<>>)

\* currentChunk.push(element) with chunks empty: `chunks.at(-1) ?? []` leaves
\* lastKey and currentChunk undefined, so a first key that is undefined is
\* === lastKey and the push is a call on undefined.  The value stands for the
\* TypeError: the undefined key and no chunk.
TypeError == << <<Undefined, <<>> >> >>

\* A chunk is <<key, elements>>.
chunk(array, callback) ==
  LET RECURSIVE loop(_, _)
      loop(i, chunks) ==
        IF i > Len(array) THEN chunks
        ELSE LET key == keyOf(callback, array[i])
             IN IF chunks = <<>>
                THEN (IF isUndefined(callback, array[i]) THEN TypeError
                      ELSE loop(i + 1, << <<key, <<array[i]>> >> >>))
                ELSE IF key = chunks[Len(chunks)][1]
                THEN loop(i + 1, [chunks EXCEPT ![Len(chunks)][2] = Append(@, array[i])])
                ELSE loop(i + 1, Append(chunks, <<key, <<array[i]>> >>))
  IN loop(1, <<>>)

\* A chrome.tabs.Tab, with the properties the commands read.
Tab ==
  [id : Int, index : Int, windowId : STRING, pinned : BOOLEAN, groupId : Int,
   highlighted : BOOLEAN]
getTabId == [tab \in Tab |-> tab.id]
isSelected == [tab \in Tab |-> tab.highlighted]
byGroup == [tab \in Tab |-> tab.groupId]
getTabIndex == [tab \in Tab |-> tab.index]
Map(s, f) == [i \in 1..Len(s) |-> f[s[i]]]
Filter(s, p) == SelectSeq(s, LAMBDA e : p[e])

\* ------------------------------------------------------------ host state
PosOf(s, id) == CHOOSE i \in 1..Len(s) : s[i].id = id
HasTab(s, id) == \E i \in 1..Len(s) : s[i].id = id
WindowOf(wins, id) == CHOOSE w \in WindowIds : HasTab(wins[w], id)
PinnedCount(s) == Cardinality({i \in 1..Len(s) : s[i].pinned})
GroupPositions(s, g) == {i \in 1..Len(s) : s[i].groupId = g}
GroupWindow(wins, g) == CHOOSE w \in WindowIds : GroupPositions(wins[w], g) # {}
GroupExists(wins, g) == \E w \in WindowIds : GroupPositions(wins[w], g) # {}

\* A chrome.tabs.Tab as a query returns it.
TabObject(wins, w, i) ==
  [id |-> wins[w][i].id, index |-> i - 1, windowId |-> w,
   pinned |-> wins[w][i].pinned, groupId |-> wins[w][i].groupId,
   highlighted |-> wins[w][i].highlighted]
TabsOfWindow(wins, w) == [i \in 1..Len(wins[w]) |-> TabObject(wins, w, i)]
TabById(wins, id) == TabObject(wins, WindowOf(wins, id), PosOf(wins[WindowOf(wins, id)], id))

\* Data-model invariants of one window (spec section 3).
PinnedPrefix(s) ==
  \A i, j \in 1..Len(s) : (i < j /\ s[j].pinned) => s[i].pinned
PinnedUngrouped(s) ==
  \A i \in 1..Len(s) : s[i].pinned => s[i].groupId = TAB_GROUP_ID_NONE
Contiguous(s, g) ==
  \A i, j, k \in 1..Len(s) :
    (i < j /\ j < k /\ s[i].groupId = g /\ s[k].groupId = g) => s[j].groupId = g
GroupIdsOf(s) == {s[i].groupId : i \in 1..Len(s)} \ {TAB_GROUP_ID_NONE}
GroupsContiguous(s) == \A g \in GroupIdsOf(s) : Contiguous(s, g)
WellFormed(s) == PinnedPrefix(s) /\ PinnedUngrouped(s) /\ GroupsContiguous(s)

\* ------------------------------------------------------------ host calls
\* A host call, as the command issues it.  tabIds holds tab ids (for
\* tabs.highlight: tab indices); slot is the entry of movedTabChunks the
\* call's result resolves into (0: none).
Call(op, tabIds, groupId, index, windowId, slot) ==
  [op |-> op, tabIds |-> tabIds, groupId |-> groupId, index |-> index,
   windowId |-> windowId, slot |-> slot]

\* The result of a host call: the windows after it, whether it succeeded,
\* and the Tab objects it resolves to.
HostResult(wins, ok, tabs) == [wins |-> wins, ok |-> ok, tabs |-> tabs]

\* When the last highlighted tab of a window leaves it, the host selects a
\* neighbour: a window with tabs always has a highlighted tab.
Reselect(s, i) ==
  IF s = <<>> \/ \E j \in 1..Len(s) : s[j].highlighted THEN s
  ELSE [s EXCEPT ![Min(i, Len(s))].highlighted = TRUE]

\* chrome.tabs.move(tabId, {index}) within the tab's window: the tab ends at
\* `index` (-1: the end), kept inside its own region: a pinned tab stays in
\* the pinned prefix and an unpinned tab stays after it.
HostMoveInWindow(wins, tabId, index) ==
  LET w == WindowOf(wins, tabId)
      s == wins[w]
      i == PosOf(s, tabId)
      rest == Remove(s, i)
      want == IF index < 0 \/ index > Len(rest) THEN Len(rest) ELSE index
      k == PinnedCount(rest)
      to == IF s[i].pinned THEN Min(want, k) ELSE Max(want, k)
      after == [wins EXCEPT ![w] = InsertAt(rest, to + 1, s[i])]
  IN HostResult(after, TRUE, <<TabObject(after, w, to + 1)>>)

\* chrome.tabs.move(tabId, {windowId, index}) to another window: the tab
\* arrives unpinned, ungrouped and not highlighted.
HostMoveToWindow(wins, tabId, windowId, index) ==
  LET w == WindowOf(wins, tabId)
      s == wins[w]
      i == PosOf(s, tabId)
      d == wins[windowId]
      want == IF index < 0 \/ index > Len(d) THEN Len(d) ELSE index
      to == Max(want, PinnedCount(d))
      t == [s[i] EXCEPT !.pinned = FALSE, !.groupId = TAB_GROUP_ID_NONE,
                        !.highlighted = FALSE]
      after == [wins EXCEPT ![w] = Reselect(Remove(s, i), i),
                            ![windowId] = InsertAt(d, to + 1, t)]
  IN HostResult(after, TRUE, <<TabObject(after, windowId, to + 1)>>)

HostTabsMove(wins, tabId, windowId, index) ==
  IF windowId = NoWindow \/ windowId = WindowOf(wins, tabId)
  THEN HostMoveInWindow(wins, tabId, index)
  ELSE HostMoveToWindow(wins, tabId, windowId, index)

\* chrome.tabGroups.move(groupId, {index}) within the group's window: the
\* group's tabs move as one block whose first tab ends at `index` (-1: the
\* block ends the window).  The host refuses an index inside the pinned tabs
\* or inside another group.
HostGroupMoveInWindow(wins, groupId, index) ==
  LET w == GroupWindow(wins, groupId)
      s == wins[w]
      block == SelectSeq(s, LAMBDA t : t.groupId = groupId)
      rest == SelectSeq(s, LAMBDA t : t.groupId # groupId)
      want == IF index < 0 \/ index > Len(rest) THEN Len(rest) ELSE index
      inPinned == want < PinnedCount(rest)
      inGroup == /\ want >= 1 /\ want < Len(rest)
                 /\ rest[want].groupId # TAB_GROUP_ID_NONE
                 /\ rest[want].groupId = rest[want + 1].groupId
      after == [wins EXCEPT ![w] = InsertSeqAt(rest, want + 1, block)]
  IN IF inPinned \/ inGroup THEN HostResult(wins, FALSE, <<>>)
     ELSE HostResult(after, TRUE, <<>>)

\* chrome.tabGroups.move(groupId, {windowId, index: -1}) to another window:
\* the block is appended there; its tabs keep their group and are not
\* highlighted in the new window.
HostGroupMoveToWindow(wins, groupId, windowId) ==
  LET w == GroupWindow(wins, groupId)
      s == wins[w]
      first == CHOOSE i \in GroupPositions(s, groupId) :
                 \A j \in GroupPositions(s, groupId) : i <= j
      block == [i \in 1..Len(SelectSeq(s, LAMBDA t : t.groupId = groupId)) |->
                  [SelectSeq(s, LAMBDA t : t.groupId = groupId)[i]
                     EXCEPT !.highlighted = FALSE]]
      rest == SelectSeq(s, LAMBDA t : t.groupId # groupId)
      after == [wins EXCEPT ![w] = Reselect(rest, first),
                            ![windowId] = wins[windowId] \o block]
  IN HostResult(after, TRUE, <<>>)

HostTabGroupsMove(wins, groupId, windowId, index) ==
  IF ~GroupExists(wins, groupId) THEN HostResult(wins, FALSE, <<>>)
  ELSE IF windowId = NoWindow \/ windowId = GroupWindow(wins, groupId)
       THEN HostGroupMoveInWindow(wins, groupId, index)
       ELSE HostGroupMoveToWindow(wins, groupId, windowId)

\* chrome.tabs.group({tabIds, groupId}): the tabs become members of the group.
HostTabsGroup(wins, tabIds, groupId) ==
  HostResult([w \in WindowIds |->
               [i \in 1..Len(wins[w]) |->
                 IF wins[w][i].id \in Range(tabIds)
                 THEN [wins[w][i] EXCEPT !.groupId = groupId]
                 ELSE wins[w][i]]],
             TRUE, <<>>)

\* chrome.tabs.ungroup(tabIds): the tabs leave their groups.
HostTabsUngroup(wins, tabIds) == HostTabsGroup(wins, tabIds, TAB_GROUP_ID_NONE)

\* chrome.tabs.update(tabId, {pinned: true}): the tab joins the end of its
\* window's pinned prefix and leaves its group.
HostTabsPin(wins, tabId) ==
  LET w == WindowOf(wins, tabId)
      s == wins[w]
      i == PosOf(s, tabId)
      rest == Remove(s, i)
      to == PinnedCount(rest)
      t == [s[i] EXCEPT !.pinned = TRUE, !.groupId = TAB_GROUP_ID_NONE]
      after == [wins EXCEPT ![w] = InsertAt(rest, to + 1, t)]
  IN IF s[i].pinned THEN HostResult(wins, TRUE, <<TabObject(wins, w, i)>>)
     ELSE HostResult(after, TRUE, <<TabObject(after, w, to + 1)>>)

\* chrome.tabs.update(tabId, {active: true}): the tab becomes the only
\* highlighted tab of its window.
HostTabsActivate(wins, tabId) ==
  LET w == WindowOf(wins, tabId)
      after == [wins EXCEPT ![w] =
                  [i \in 1..Len(wins[w]) |->
                     [wins[w][i] EXCEPT !.highlighted = (wins[w][i].id = tabId)]]]
  IN HostResult(after, TRUE, <<TabObject(after, w, PosOf(after[w], tabId))>>)

\* chrome.tabs.query({groupId}).  A query whose groupId is undefined carries
\* no filter: it returns the tabs of every window.
HostTabsQueryGroup(wins, groupId) ==
  LET all == TabsOfWindow(wins, SourceWindow) \o TabsOfWindow(wins, DestWindow)
  IN IF groupId = Undefined THEN HostResult(wins, TRUE, all)
     ELSE HostResult(wins, TRUE, SelectSeq(all, LAMBDA t : t.groupId = groupId))

\* chrome.tabs.highlight({tabs, windowId}): the tabs at the given indices
\* become the window's highlighted tabs; an index with no tab fails the call
\* and changes nothing.
HostTabsHighlight(wins, indices, windowId) ==
  IF \E k \in 1..Len(indices) : indices[k] < 0 \/ indices[k] >= Len(wins[windowId])
  THEN HostResult(wins, FALSE, <<>>)
  ELSE HostResult([wins EXCEPT ![windowId] =
                     [i \in 1..Len(wins[windowId]) |->
                        [wins[windowId][i] EXCEPT
                           !.highlighted = (i - 1) \in Range(indices)]]],
                  TRUE, <<>>)

HostApplyCall(wins, c) ==
  CASE c.op = "tabs.move" -> HostTabsMove(wins, c.tabIds[1], c.windowId, c.index)
    [] c.op = "tabGroups.move" -> HostTabGroupsMove(wins, c.groupId, c.windowId, c.index)
    [] c.op = "tabs.group" -> HostTabsGroup(wins, c.tabIds, c.groupId)
    [] c.op = "tabs.ungroup" -> HostTabsUngroup(wins, c.tabIds)
    [] c.op = "tabs.update" -> HostTabsPin(wins, c.tabIds[1])
    [] c.op = "tabs.activate" -> HostTabsActivate(wins, c.tabIds[1])
    [] c.op = "tabs.query" -> HostTabsQueryGroup(wins, c.groupId)
    [] c.op = "tabs.highlight" -> HostTabsHighlight(wins, c.tabIds, c.windowId)
    [] OTHER -> HostResult(wins, TRUE, <<>>)

\* ------------------------------------------------------------ moveTabDirection
\* What a command's synchronous part did: the host calls it issued, in
\* order, and whether it then threw (the command's promise is rejected; the
\* calls already issued stay issued).
Plan(calls, thrown) == [calls |-> calls, thrown |-> thrown]
NoPlan == Plan(<<>>, FALSE)
\* A ReferenceError or TypeError raised before the call was made.
Throw == Plan(<<>>, TRUE)

TabsQuery(windowId) == Call("tabs.query", <<>>, TAB_GROUP_ID_NONE, 0, windowId, 0)
TabGroupsQuery(windowId) == Call("tabGroups.query", <<>>, TAB_GROUP_ID_NONE, 0, windowId, 0)
TabsMove(tabId, index) == Call("tabs.move", <<tabId>>, TAB_GROUP_ID_NONE, index, NoWindow, 0)
TabGroupsMove(groupId, index) == Call("tabGroups.move", <<>>, groupId, index, NoWindow, 0)
TabsGroup(tabIds, groupId) == Call("tabs.group", tabIds, groupId, 0, NoWindow, 0)
TabsUngroup(tabIds) == Call("tabs.ungroup", tabIds, TAB_GROUP_ID_NONE, 0, NoWindow, 0)

focusIndex(direction) == IF direction = Backward THEN 0 ELSE -1
anchorIndex(direction) == IF direction = Backward THEN -1 ELSE 0
focusOffset(direction) == IF direction = Backward THEN -1 ELSE 1
anchorOffset(direction) == IF direction = Backward THEN 1 ELSE 0

\* ungroupTabs that ungroups nothing.
ungroupNoTabs(direction, tabIds) == TabsUngroup(<<>>)

\* Chrome ungroups tabs sequentially, hence the reversed ids going Forward.
ungroupTabs(direction, tabIds) ==
  IF direction = Backward THEN TabsUngroup(tabIds) ELSE TabsUngroup(toReversed(tabIds))

\* moveGroupToTab(groupId, tabId): Backward, the group goes to the end of
\* the window first. `targetTab = await chrome.tabs.get(tabId)` assigns a
\* name no scope declares, which throws in module code: the last
\* chrome.tabGroups.move is not reached.
moveGroupToTab(direction, groupId, tabId) ==
  LET get == Call("tabs.get", <<tabId>>, TAB_GROUP_ID_NONE, 0, NoWindow, 0)
  IN IF direction = Backward THEN Plan(<<TabGroupsMove(groupId, -1), get>>, TRUE)
     ELSE Plan(<<get>>, TRUE)

\* tabs.findIndex(tab => !tab.pinned) and the two slices.
pinnedTabsOf(tabs) == SelectSeq(tabs, LAMBDA t : t.pinned)
\* startIndexOf when no tab is taken for an unpinned one.
startIndexOfNone(tabs) == -1
startIndexOf(tabs) ==
  IF \E i \in 1..Len(tabs) : ~tabs[i].pinned
  THEN (CHOOSE i \in 1..Len(tabs) :
          ~tabs[i].pinned /\ \A j \in 1..(i - 1) : tabs[j].pinned) - 1
  ELSE -1
slicePinned(tabs) ==
  IF startIndexOf(tabs) = -1 THEN tabs ELSE SubSeq(tabs, 1, startIndexOf(tabs))
sliceOther(tabs) ==
  IF startIndexOf(tabs) = -1 THEN <<>> ELSE SubSeq(tabs, startIndexOf(tabs) + 1, Len(tabs))

\* Map.groupBy(tabs, byGroup).get(groupId)
tabsByGroup(tabs, groupId) == SelectSeq(tabs, LAMBDA t : byGroup[t] = groupId)
\* groupIdToSelPartition.get(groupId): [selectedTabs, otherTabs]
groupIdToSelPartition(tabs, groupId) == partition(tabsByGroup(tabs, groupId), isSelected)

\* tabPartition.at(focusIndex) is selected: tabPartition.splice(focusIndex, 1)
isBoundarySelected(tabPartition, direction) ==
  Len(tabPartition) > 0 /\ At(tabPartition, focusIndex(direction))[1]
spliceBoundary(tabPartition, direction) ==
  IF isBoundarySelected(tabPartition, direction)
  THEN (IF focusIndex(direction) = 0 THEN Tail(tabPartition)
        ELSE SubSeq(tabPartition, 1, Len(tabPartition) - 1))
  ELSE tabPartition

\* for (index = tabPartition[0][0] ? 0 : 1; index < length; index += 2):
\* the tab selections the loop visits, in order.
loopSelections(tabPartition) ==
  IF tabPartition = <<>> THEN <<>>
  ELSE LET first == IF tabPartition[1][1] THEN 1 ELSE 2
           n == IF first > Len(tabPartition) THEN 0
                ELSE (Len(tabPartition) - first) \div 2 + 1
       IN [k \in 1..n |-> tabPartition[first + 2 * (k - 1)][2]]

focusTabOf(tabSelection, direction) == At(tabSelection, focusIndex(direction))
anchorTabOf(tabSelection, direction) == At(tabSelection, anchorIndex(direction))
\* tabs[focusTab.index + focusOffset]
targetTabOf(tabs, tabSelection, direction) ==
  tabs[focusTabOf(tabSelection, direction).index + focusOffset(direction) + 1]

\* Pinned tabs: `moveTabs.push(chrome.tabs.move(...))`.  moveTabs is the
\* function of line 2421, which has no push: the argument is evaluated (the
\* move is issued) and the call of the missing method then throws.
movePinnedTabs(tabs, direction) ==
  LET tabPartition == spliceBoundary(chunk(slicePinned(tabs), isSelected), direction)
      selections == loopSelections(tabPartition)
  IN IF selections = <<>> THEN NoPlan
     ELSE Plan(<<TabsMove(targetTabOf(tabs, selections[1], direction).id,
                          anchorTabOf(selections[1], direction).index)>>,
               TRUE)

\* The boundary chunk of the other tabs (lines 1548-1566).
boundaryUngroup(tabs, direction) ==
  LET tabPartition == chunk(sliceOther(tabs), isSelected)
      tabSelection == At(tabPartition, focusIndex(direction))[2]
      focusTab == focusTabOf(tabSelection, direction)
      anchorTab == anchorTabOf(tabSelection, direction)
  IN IF /\ isBoundarySelected(tabPartition, direction)
        /\ anchorTab.groupId = focusTab.groupId
        /\ focusTab.groupId # TAB_GROUP_ID_NONE
        /\ Len(groupIdToSelPartition(tabs, focusTab.groupId)[2]) = 0
     THEN <<ungroupTabs(direction, Map(tabSelection, getTabId))>>
     ELSE <<>>

\* mergeTabIds that takes the first tab of the selection only.
mergeFirstTabId(tabSelection) == <<tabSelection[1].id>>

\* tabSelection.map(tab => tab.id) of the two chrome.tabs.group branches.
mergeTabIds(tabSelection) == Map(tabSelection, getTabId)

\* The if / else-if chain of one tab selection (lines 1590-1771).  The
\* branches that read targetInfo or anchorInfo, which no scope declares,
\* throw a ReferenceError before they issue anything.
moveSelection(tabs, collapsedInfo, direction, tabSelection) ==
  LET focusTab == focusTabOf(tabSelection, direction)
      anchorTab == anchorTabOf(tabSelection, direction)
      targetTab == targetTabOf(tabs, tabSelection, direction)
      others == Len(groupIdToSelPartition(tabs, anchorTab.groupId)[2])
  IN IF /\ anchorTab.groupId = TAB_GROUP_ID_NONE
        /\ targetTab.groupId = TAB_GROUP_ID_NONE
     THEN Throw  \* chrome.tabs.move(targetInfo.tabId, ...)
     ELSE IF /\ others > 0
             /\ anchorTab.groupId = focusTab.groupId
             /\ targetTab.groupId = TAB_GROUP_ID_NONE
     THEN Throw  \* ungroupTabs(anchorInfo.tabIds)
     ELSE IF /\ others = 0
             /\ anchorTab.groupId = focusTab.groupId
             /\ targetTab.groupId = TAB_GROUP_ID_NONE
     THEN Throw  \* chrome.tabs.move(targetInfo.tabId, ...)
     ELSE IF /\ anchorTab.groupId = TAB_GROUP_ID_NONE
             /\ anchorTab.groupId # focusTab.groupId
             /\ targetTab.groupId = TAB_GROUP_ID_NONE
     THEN Throw  \* chrome.tabs.move(targetInfo.tabId, ...)
     ELSE IF /\ others > 0
             /\ anchorTab.groupId # focusTab.groupId
             /\ targetTab.groupId = TAB_GROUP_ID_NONE
     THEN Throw  \* ungroupTabs(anchorInfo.tabIds), ...
     ELSE IF /\ others = 0
             /\ anchorTab.groupId # focusTab.groupId
             /\ targetTab.groupId = TAB_GROUP_ID_NONE
     THEN Throw  \* chrome.tabs.move(targetInfo.tabId, ...)
     ELSE IF /\ targetTab.groupId # anchorTab.groupId
             /\ targetTab.groupId = focusTab.groupId
     THEN Plan(<<TabsGroup(mergeTabIds(tabSelection), targetTab.groupId)>>, FALSE)
     ELSE IF /\ targetTab.groupId = anchorTab.groupId
             /\ targetTab.groupId = focusTab.groupId
     THEN Throw  \* chrome.tabs.move(targetInfo.tabId, ...)
     ELSE IF /\ anchorTab.groupId = TAB_GROUP_ID_NONE
             /\ anchorTab.groupId = focusTab.groupId
             /\ collapsedInfo[targetTab.groupId] = FALSE
     THEN Plan(<<TabsGroup(mergeTabIds(tabSelection), targetTab.groupId)>>, FALSE)
     ELSE IF /\ anchorTab.groupId = TAB_GROUP_ID_NONE
             /\ anchorTab.groupId = focusTab.groupId
             /\ collapsedInfo[targetTab.groupId] = TRUE
     THEN Throw  \* moveGroupToTab(targetInfo.groupId, anchorInfo.tabId)
     ELSE IF /\ others > 0
             /\ anchorTab.groupId = focusTab.groupId
             /\ targetTab.groupId # TAB_GROUP_ID_NONE
     THEN Plan(<<ungroupTabs(direction, Map(tabSelection, getTabId))>>, FALSE)
     ELSE Throw  \* every later branch reads targetInfo or anchorInfo

RECURSIVE moveSelections(_, _, _, _, _)
moveSelections(tabs, collapsedInfo, direction, selections, i) ==
  IF i > Len(selections) THEN NoPlan
  ELSE LET one == moveSelection(tabs, collapsedInfo, direction, selections[i])
           rest == moveSelections(tabs, collapsedInfo, direction, selections, i + 1)
       IN IF one.thrown THEN one
          ELSE Plan(one.calls \o rest.calls, rest.thrown)

moveOtherTabs(tabs, collapsedInfo, direction) ==
  LET tabPartition == spliceBoundary(chunk(sliceOther(tabs), isSelected), direction)
      moved == moveSelections(tabs, collapsedInfo, direction,
                              loopSelections(tabPartition), 1)
  IN Plan(boundaryUngroup(tabs, direction) \o moved.calls, moved.thrown)

moveTabDirection(tabs, collapsedInfo, direction) ==
  LET queries == <<TabsQuery(cx.windowId), TabGroupsQuery(cx.windowId)>>
      pinned == movePinnedTabs(tabs, direction)
      other == moveOtherTabs(tabs, collapsedInfo, direction)
  IN IF pinned.thrown THEN Plan(queries \o pinned.calls, TRUE)
     ELSE Plan(queries \o pinned.calls \o other.calls, other.thrown)

\* ------------------------------------------------------------ moveTabs
\* moveTabs(tabIds, moveProperties) of commands.js: one chrome.tabs.move per
\* tab id, issued in the order of tabIds.
moveTabs(tabIds, index, windowId, slot) ==
  [i \in 1..Len(tabIds) |->
     Call("tabs.move", <<tabIds[i]>>, TAB_GROUP_ID_NONE, index, windowId, slot)]

\* ------------------------------------------------------------ moveTabEdgeDirection
tabIndex(direction) == IF direction = Backward THEN 0 ELSE -1
toOrdered(direction, list) == IF direction = Backward THEN list ELSE toReversed(list)

\* chunk(otherTabs, byGroup).map(...): [groupId, selectedTabs, otherTabs]
groupPartition(otherTabs) ==
  LET chunks == chunk(otherTabs, byGroup)
  IN [k \in 1..Len(chunks) |->
        <<chunks[k][1], partition(chunks[k][2], isSelected)[1],
          partition(chunks[k][2], isSelected)[2]>>]

\* edgeGroupIndex without the pinned tabs' length: the far left is index 0.
edgeGroupIndexIgnoringPinned(tabs, direction) == tabIndex(direction)

\* Move tab group to the far left/right (lines 1851-1855).
edgeGroupIndex(tabs, direction) ==
  IF tabIndex(direction) = 0 THEN Len(slicePinned(tabs)) ELSE tabIndex(direction)

\* edgeInGroupIndex sending the tabs of a group to the edge of the window.
edgeInGroupIndexOfWindow(tabs, direction, groupId) == tabIndex(direction)

\* Move tabs in group to the far left/right (lines 1861-1863).
edgeInGroupIndex(tabs, direction, groupId) ==
  At(tabsByGroup(tabs, groupId), tabIndex(direction)).index

\* The callback of toOrdered(tabPartition).map (lines 1844-1870).
moveEdgeChunk(tabs, direction, groupId, selectedTabs, otherTabs) ==
  IF groupId # TAB_GROUP_ID_NONE /\ Len(otherTabs) = 0
  THEN <<TabGroupsMove(groupId, edgeGroupIndex(tabs, direction))>>
  ELSE IF groupId # TAB_GROUP_ID_NONE /\ Len(otherTabs) > 0
  THEN moveTabs(Map(selectedTabs, getTabId),
                edgeInGroupIndex(tabs, direction, groupId), NoWindow, 0)
  ELSE moveTabs(Map(selectedTabs, getTabId), tabIndex(direction), NoWindow, 0)

moveTabEdgeDirection(tabs, direction) ==
  LET tabPartition == toOrdered(direction, groupPartition(sliceOther(tabs)))
      pinnedIds == Map(Filter(toOrdered(direction, slicePinned(tabs)), isSelected), getTabId)
  IN Plan(<<TabsQuery(cx.windowId)>>
          \o moveTabs(pinnedIds, tabIndex(direction), NoWindow, 0)
          \o Flatten([k \in 1..Len(tabPartition) |->
                        moveEdgeChunk(tabs, direction, tabPartition[k][1],
                                      tabPartition[k][2], tabPartition[k][3])]),
          FALSE)

\* ------------------------------------------------------------ moveTabsToWindow
\* movedTabChunks[0] is the pinned tabs' promise; chunk k resolves entry k.
pinnedSlot == 1
chunkSlot(k) == pinnedSlot + k

\* sameWindow without the check of line 1903.
sameWindowUnchecked(windowId) == FALSE

\* "Prevent moving tabs to the same window."
sameWindow(windowId) == cx.windowId = windowId

\* moveChunkToWindow moving the tabs of a fully selected group one by one.
moveChunkToWindowTabByTab(groupId, tabs, windowId, slot) ==
  moveTabs(Map(Filter(tabs, isSelected), getTabId), -1, windowId, slot)

\* One chunk of chunk(otherTabs, byGroup) (lines 1928-1938).
moveChunkToWindow(groupId, tabs, windowId, slot) ==
  LET selectedTabs == Filter(tabs, isSelected)
  IN IF groupId # TAB_GROUP_ID_NONE /\ Len(selectedTabs) = Len(tabs)
     THEN <<Call("tabGroups.move", <<>>, groupId, -1, windowId, slot)>>
     ELSE moveTabs(Map(selectedTabs, getTabId), -1, windowId, slot)

\* The pinned tabs' moves (line 1921).
movePinnedToWindow(pinnedTabs, windowId) ==
  moveTabs(Map(Filter(pinnedTabs, isSelected), getTabId), -1, windowId, pinnedSlot)

moveTabsToWindow(tabs, windowId) ==
  LET chunks == chunk(sliceOther(tabs), byGroup)
  IN Plan(<<TabsQuery(cx.windowId)>>
          \o movePinnedToWindow(slicePinned(tabs), windowId)
          \o Flatten([k \in 1..Len(chunks) |->
                        moveChunkToWindow(chunks[k][1], chunks[k][2], windowId,
                                          chunkSlot(k))]),
          FALSE)

\* pinMovedTabs without the chrome.tabs.update calls.
pinMovedTabsNever(calls) == <<>>

\* .then(tabs => Promise.all(tabs.map(tab => chrome.tabs.update(tab.id,
\* {pinned: true})))): issued once every move of the pinned tabs resolved.
pinMovedTabs(calls) ==
  LET moved == SelectSeq(calls, LAMBDA c : c.op = "tabs.move" /\ c.slot = pinnedSlot)
  IN [i \in 1..Len(moved) |->
        Call("tabs.update", moved[i].tabIds, TAB_GROUP_ID_NONE, 0, NoWindow, pinnedSlot)]

\* .then(tabGroup => chrome.tabs.query({groupId: tabGroup.groupId})): a
\* TabGroup has an id and no groupId, so the filter is undefined.
queryMovedGroup(call) ==
  Call("tabs.query", <<>>, Undefined, 0, NoWindow, call.slot)

\* [activeTab].concat(...movedTabChunks).map(tab => tab.index)
tabsToHighlight(activeTab, chunks) ==
  <<activeTab.index>> \o Flatten([k \in 1..Len(chunks) |-> chunks[k]])

\* Focus window and select tabs (lines 1942-1945).
selectMovedTabs(wins, chunks, windowId) ==
  <<Call("tabs.get", <<cx.tabId>>, TAB_GROUP_ID_NONE, 0, NoWindow, 0),
    Call("windows.update", <<>>, TAB_GROUP_ID_NONE, 0, windowId, 0),
    Call("tabs.highlight", tabsToHighlight(TabById(wins, cx.tabId), chunks),
         TAB_GROUP_ID_NONE, 0, windowId, 0)>>

\* ------------------------------------------------------------ focusTabRelative
\* The names utils.js declares: its function declarations. It imports none.
utilsDeclarations ==
  {"moveTabs", "sendNotification", "waitForNavigation", "partition", "chunk",
   "getISODateString", "modulo", "clamp", "getVisibleTabs", "getOpenTabRelative",
   "getOpenWindowRelative"}
\* Reading a name that is declared nowhere throws ReferenceError.
isDeclared(name) == name \in utilsDeclarations

\* What is not a number: the sum of a number and an object, and a remainder
\* by zero.
NaN == -4
\* The % of JavaScript: the remainder has the sign of the dividend.
remainder(dividend, divisor) ==
  IF dividend >= 0 THEN dividend % divisor ELSE -((-dividend) % divisor)
modulo(dividend, divisor) ==
  IF dividend = NaN \/ divisor = 0 THEN NaN
  ELSE remainder(remainder(dividend, divisor) + divisor, divisor)

TabsActivate(tabId) == Call("tabs.activate", <<tabId>>, TAB_GROUP_ID_NONE, 0, NoWindow, 0)

\* The visible tabs of a window, or the ReferenceError that reading
\* getAllTabGroups or getAllTabs raises.
getVisibleTabs(tabs, collapsedInfo) ==
  IF ~isDeclared("getAllTabGroups") \/ ~isDeclared("getAllTabs")
  THEN [thrown |-> TRUE, tabs |-> <<>>]
  ELSE [thrown |-> FALSE,
        tabs |-> SelectSeq(tabs, LAMBDA tab :
                   ~(tab.groupId \in DOMAIN collapsedInfo /\ collapsedInfo[tab.groupId]))]

\* The tab delta places after tabId among the visible tabs, wrapping around:
\* a sequence of one tab, or the empty sequence for undefined.
getOpenTabRelative(tabs, collapsedInfo, tabId, delta) ==
  LET visible == getVisibleTabs(tabs, collapsedInfo)
      found == {i \in 1..Len(visible.tabs) : visible.tabs[i].id = tabId}
      findIndex == IF found = {} THEN -1
                   ELSE (CHOOSE i \in found : \A j \in found : i <= j) - 1
      index == modulo(IF delta = NaN THEN NaN ELSE findIndex + delta, Len(visible.tabs))
  IN [thrown |-> visible.thrown,
      tabs |-> IF visible.thrown \/ index = NaN THEN <<>> ELSE <<visible.tabs[index + 1]>>]

\* getOpenTabRelative(cx.tab.id, cx.tab.windowId, cx, delta): the third
\* argument, cx, is what getOpenTabRelative receives as delta; tab.id on
\* undefined throws TypeError.
focusTabRelative(tabs, collapsedInfo, delta) ==
  LET tab == getOpenTabRelative(tabs, collapsedInfo, cx.tabId, NaN)
  IN IF tab.thrown \/ tab.tabs = <<>> THEN Throw
     ELSE Plan(<<TabsActivate(tab.tabs[1].id)>>, FALSE)

\* ------------------------------------------------------------ initial states
GroupIds == 1..MaxGroups
HostTab(id, pinned, groupId, highlighted) ==
  [id |-> id, pinned |-> pinned, groupId |-> groupId, highlighted |-> highlighted]

\* Group ids are only ever compared for equality: the groups of a snapshot
\* are numbered in the order they appear.
GroupsInOrder(s) ==
  \A i \in 1..Len(s) :
    s[i].groupId # TAB_GROUP_ID_NONE =>
      \A g \in 1..(s[i].groupId - 1) : \E j \in 1..(i - 1) : s[j].groupId = g

\* The windows the source window may be, before its tabs are given ids.
SourceSnapshots ==
  UNION {
    {s \in [1..n -> [pinned : BOOLEAN,
                     groupId : GroupIds \cup {TAB_GROUP_ID_NONE},
                     highlighted : BOOLEAN]] :
       /\ \E i \in 1..n : s[i].highlighted
       /\ WellFormed(s)
       /\ GroupsInOrder(s)} : n \in 1..MaxTabs}
\* Tab ids are the initial positions.
WithTabIds(s) ==
  [i \in 1..Len(s) |-> HostTab(i, s[i].pinned, s[i].groupId, s[i].highlighted)]

\* The destination window: ungrouped tabs, the last one active.
DestSnapshots ==
  {[i \in 1..n |-> HostTab(DestTabId(i), i <= p, TAB_GROUP_ID_NONE, i = n)] :
     n \in 1..MaxDestTabs, p \in 0..1} \ {<<>>}

Init ==
  /\ \E s \in SourceSnapshots, d \in DestSnapshots :
       /\ PinnedCount(d) < Len(d)
       /\ windows = [w \in WindowIds |-> IF w = SourceWindow THEN WithTabIds(s) ELSE d]
  /\ collapsed \in [GroupIds -> BOOLEAN]
  /\ \A g \in GroupIds : collapsed[g] => g \in GroupIdsOf(windows[SourceWindow])
  /\ focused = SourceWindow
  /\ \E i \in 1..Len(windows[SourceWindow]) :
       /\ windows[SourceWindow][i].highlighted
       /\ cx = [tabId |-> windows[SourceWindow][i].id, windowId |-> SourceWindow]
  /\ cmd = [name |-> "none", direction |-> 0, windowId |-> NoWindow]
  /\ pc = "idle"
  /\ outcome = "pending"
  /\ pending = <<>>
  /\ issued = <<>>
  /\ movedTabChunks = <<>>
  /\ snap = windows
  /\ rejected = <<>>
  /\ arrayArg = <<>>
  /\ predicateArg = <<>>
  /\ callbackArg = <<>>
  /\ called = "none"
  /\ result = <<>>
  /\ waiting = [tabId |-> 0, eventType |-> ""]
  /\ listeners = {}
  /\ resolved = 0
  /\ delivered = <<>>

\* ------------------------------------------------------------ actions
\* A command starts: its synchronous part runs against the snapshot the
\* queries return and issues its host calls.
Start(name, direction, windowId, plan) ==
  /\ pc = "idle"
  /\ cmd' = [name |-> name, direction |-> direction, windowId |-> windowId]
  /\ pc' = "running"
  /\ outcome' = IF plan.thrown THEN "rejected" ELSE "pending"
  /\ issued' = plan.calls
  /\ pending' = SelectSeq(plan.calls,
                          LAMBDA c : c.op \notin {"tabs.query", "tabGroups.query"})
  /\ snap' = windows
  /\ UNCHANGED <<windows, collapsed, focused, cx, rejected>>
  /\ UNCHANGED utilsVars

\* moveTabLeft / moveTabRight
MoveTabDirection(direction) ==
  /\ Start("moveTabDirection", direction, NoWindow,
           moveTabDirection(TabsOfWindow(windows, cx.windowId), collapsed, direction))
  /\ UNCHANGED movedTabChunks

\* moveTabFirst / moveTabLast
MoveTabEdgeDirection(direction) ==
  /\ Start("moveTabEdgeDirection", direction, NoWindow,
           moveTabEdgeDirection(TabsOfWindow(windows, cx.windowId), direction))
  /\ UNCHANGED movedTabChunks

\* moveTabsToWindow(cx, windowId)
MoveTabsToWindow(windowId) ==
  LET tabs == TabsOfWindow(windows, cx.windowId)
  IN IF sameWindow(windowId)
     THEN /\ pc = "idle"
          /\ cmd' = [name |-> "moveTabsToWindow", direction |-> 0, windowId |-> windowId]
          /\ pc' = "done"
          /\ outcome' = "resolved"
          /\ snap' = windows
          /\ UNCHANGED <<windows, collapsed, focused, cx, pending, issued, movedTabChunks,
                          rejected>>
          /\ UNCHANGED utilsVars
     ELSE /\ Start("moveTabsToWindow", 0, windowId, moveTabsToWindow(tabs, windowId))
          /\ movedTabChunks' =
               [k \in 1..chunkSlot(Len(chunk(sliceOther(tabs), byGroup))) |-> <<>>]

\* focusNextTab
FocusNextTab ==
  /\ Start("focusNextTab", Forward, NoWindow,
           focusTabRelative(TabsOfWindow(windows, cx.windowId), collapsed, 1))
  /\ UNCHANGED movedTabChunks

\* focusPreviousTab
FocusPreviousTab ==
  /\ Start("focusPreviousTab", Backward, NoWindow,
           focusTabRelative(TabsOfWindow(windows, cx.windowId), collapsed, -1))
  /\ UNCHANGED movedTabChunks

\* What resolving call c issues next (the .then of its promise).
Continuation(c, rest) ==
  IF /\ c.op = "tabs.move" /\ c.slot = pinnedSlot
     /\ ~\E i \in 1..Len(rest) : rest[i].op = "tabs.move" /\ rest[i].slot = pinnedSlot
     /\ ~\E i \in 1..Len(rejected) :
           rejected[i].op = "tabs.move" /\ rejected[i].slot = pinnedSlot
  THEN pinMovedTabs(issued)
  ELSE IF c.op = "tabGroups.move" /\ c.slot # 0
  THEN <<queryMovedGroup(c)>>
  ELSE <<>>

\* Whether the result of call c is an element of movedTabChunks.
Resolves(c) ==
  /\ c.slot # 0
  /\ \/ c.op = "tabs.move" /\ c.slot # pinnedSlot
     \/ c.op = "tabs.update"
     \/ c.op = "tabs.query"

\* The host applies the oldest call it has not yet applied.
HostApply ==
  /\ pc \in {"running", "selecting"}
  /\ pending # <<>>
  /\ LET c == Head(pending)
         r == HostApplyCall(windows, c)
         next == IF r.ok THEN Continuation(c, Tail(pending)) ELSE <<>>
     IN /\ windows' = r.wins
        /\ focused' = IF c.op = "windows.update" THEN c.windowId ELSE focused
        /\ outcome' = IF r.ok THEN outcome ELSE "rejected"
        /\ rejected' = IF r.ok THEN rejected ELSE Append(rejected, c)
        /\ pending' = Tail(pending) \o next
        /\ issued' = issued \o next
        /\ movedTabChunks' =
             IF r.ok /\ Resolves(c)
             THEN [movedTabChunks EXCEPT ![c.slot] = @ \o Map(r.tabs, getTabIndex)]
             ELSE movedTabChunks
  /\ UNCHANGED <<collapsed, cx, cmd, pc, snap>>
  /\ UNCHANGED utilsVars

\* SelectMovedTabs when the rejection of Promise.all is ignored.
SelectMovedTabsAllSettled ==
  /\ pc = "running"
  /\ cmd.name = "moveTabsToWindow"
  /\ pending = <<>>
  /\ LET calls == selectMovedTabs(windows, movedTabChunks, cmd.windowId)
     IN /\ issued' = issued \o calls
        /\ pending' = Tail(calls)
  /\ pc' = "selecting"
  /\ UNCHANGED <<windows, collapsed, focused, cx, cmd, outcome, movedTabChunks, snap,
                  rejected>>
  /\ UNCHANGED utilsVars

\* moveTabsToWindow, once every promise of movedTabChunks has resolved.
SelectMovedTabs ==
  /\ pc = "running"
  /\ cmd.name = "moveTabsToWindow"
  /\ pending = <<>>
  /\ outcome = "pending"
  /\ LET calls == selectMovedTabs(windows, movedTabChunks, cmd.windowId)
     IN /\ issued' = issued \o calls
        /\ pending' = Tail(calls)
  /\ pc' = "selecting"
  /\ UNCHANGED <<windows, collapsed, focused, cx, cmd, outcome, movedTabChunks, snap,
                  rejected>>
  /\ UNCHANGED utilsVars

\* Every call has been applied: the command's promise settles.
Settle ==
  /\ pending = <<>>
  /\ \/ pc = "selecting"
     \/ pc = "running" /\ (cmd.name # "moveTabsToWindow" \/ outcome # "pending")
  /\ pc' = "done"
  /\ outcome' = IF outcome = "pending" THEN "resolved" ELSE outcome
  /\ UNCHANGED <<windows, collapsed, focused, cx, cmd, pending, issued, movedTabChunks, snap,
                  rejected>>
  /\ UNCHANGED utilsVars

Next ==
  \/ \E direction \in Direction : MoveTabDirection(direction)
  \/ \E direction \in Direction : MoveTabEdgeDirection(direction)
  \/ \E windowId \in WindowIds : MoveTabsToWindow(windowId)
  \/ FocusNextTab
  \/ FocusPreviousTab
  \/ HostApply
  \/ SelectMovedTabs
  \/ Settle

Spec == Init /\ [][Next]_vars

\* ------------------------------------------------------- a host call that fails
\* The host may reject a call for a reason of its own (the user is dragging a
\* tab, the tab was closed): at most MaxRejected times in a run.
MaxRejected == 1

\* The host rejects the oldest call it has not yet applied: the windows stay
\* as they are, the promise of the call is rejected and with it the
\* Promise.all the command awaits. The calls issued with it stay issued. The
\* calls after `await Promise.all` are awaited one by one: when one is
\* rejected the command has not made the later ones.
HostReject ==
  /\ pc \in {"running", "selecting"}
  /\ pending # <<>>
  /\ Len(rejected) < MaxRejected
  /\ LET c == Head(pending)
     IN /\ ~(c.slot = 0 /\ c.op \in {"tabs.query", "tabGroups.query"})
        /\ rejected' = Append(rejected, c)
        /\ outcome' = "rejected"
        /\ pending' = IF pc = "selecting" THEN <<>> ELSE Tail(pending)
        /\ issued' = IF pc = "selecting"
                     THEN SubSeq(issued, 1, Len(issued) - Len(Tail(pending)))
                     ELSE issued
  /\ UNCHANGED <<windows, collapsed, focused, cx, cmd, pc, movedTabChunks, snap>>
  /\ UNCHANGED utilsVars

NextFailure == Next \/ HostReject

SpecFailure == Init /\ [][NextFailure]_vars

\* ------------------------------------------------------------ utils.js calls
\* partition and chunk on their own: any array of at most MaxLen elements,
\* any predicate and any callback, each of which may return undefined.
Elements == 1..MaxElement
Arrays == UNION {[1..n -> Elements] : n \in 0..MaxLen}
\* What a callback returns besides undefined: null, and two values that are
\* not === to each other, as group ids or booleans are.
KeyValues == {Null, TAB_GROUP_ID_NONE, 1}
PartialFunctions(S, T) == UNION {[D -> T] : D \in SUBSET S}

InitUtils ==
  /\ arrayArg \in Arrays
  /\ predicateArg \in PartialFunctions(Elements, BOOLEAN)
  /\ callbackArg \in PartialFunctions(Elements, KeyValues)
  /\ called = "none"
  /\ result = <<>>
  /\ waiting = [tabId |-> 0, eventType |-> ""]
  /\ listeners = {}
  /\ resolved = 0
  /\ delivered = <<>>
  /\ windows = [w \in WindowIds |-> <<>>]
  /\ collapsed = [g \in GroupIds |-> FALSE]
  /\ focused = SourceWindow
  /\ cx = [tabId |-> 0, windowId |-> SourceWindow]
  /\ cmd = [name |-> "none", direction |-> 0, windowId |-> NoWindow]
  /\ pc = "idle"
  /\ outcome = "pending"
  /\ pending = <<>>
  /\ issued = <<>>
  /\ movedTabChunks = <<>>
  /\ snap = windows
  /\ rejected = <<>>

Partition ==
  /\ called = "none"
  /\ called' = "partition"
  /\ result' = partition(arrayArg, predicateArg)
  /\ UNCHANGED <<arrayArg, predicateArg, callbackArg>>
  /\ UNCHANGED navigationVars
  /\ UNCHANGED commandVars

Chunk ==
  /\ called = "none"
  /\ called' = "chunk"
  /\ result' = chunk(arrayArg, callbackArg)
  /\ UNCHANGED <<arrayArg, predicateArg, callbackArg>>
  /\ UNCHANGED navigationVars
  /\ UNCHANGED commandVars

NextUtils == Partition \/ Chunk

SpecUtils == InitUtils /\ [][NextUtils]_vars

\* ------------------------------------------------------------ waitForNavigation
\* The browser delivers at most MaxEvents navigation events, of
\* NavigationTabs tabs.
MaxEvents == 3
NavigationTabs == 2
TabIds == 1..NavigationTabs
\* Two of the events of chrome.webNavigation.
EventTypes == {"onCommitted", "onCompleted"}

\* fireAndForget that takes the event of any tab for its own.
fireAndForgetAnyTab(details, tabId) == TRUE

\* if (details.tabId === tabId): whether the listener removes itself and
\* resolves the promise.
fireAndForget(details, tabId) == details.tabId = tabId

InitNavigation ==
  /\ waiting = [tabId |-> 0, eventType |-> ""]
  /\ listeners = {}
  /\ resolved = 0
  /\ delivered = <<>>
  /\ arrayArg = <<>>
  /\ predicateArg = <<>>
  /\ callbackArg = <<>>
  /\ called = "none"
  /\ result = <<>>
  /\ windows = [w \in WindowIds |-> <<>>]
  /\ collapsed = [g \in GroupIds |-> FALSE]
  /\ focused = SourceWindow
  /\ cx = [tabId |-> 0, windowId |-> SourceWindow]
  /\ cmd = [name |-> "none", direction |-> 0, windowId |-> NoWindow]
  /\ pc = "idle"
  /\ outcome = "pending"
  /\ pending = <<>>
  /\ issued = <<>>
  /\ movedTabChunks = <<>>
  /\ snap = windows
  /\ rejected = <<>>

\* waitForNavigation(tabId, eventType): fireAndForget becomes a listener of
\* chrome.webNavigation[eventType].
WaitForNavigation(tabId, eventType) ==
  /\ called = "none"
  /\ called' = "waitForNavigation"
  /\ waiting' = [tabId |-> tabId, eventType |-> eventType]
  /\ listeners' = listeners \cup {eventType}
  /\ UNCHANGED <<resolved, delivered>>
  /\ UNCHANGED <<arrayArg, predicateArg, callbackArg, result>>
  /\ UNCHANGED commandVars

\* The browser delivers an event: it invokes the listeners of the event's
\* type, fireAndForget among them if it is one.
Deliver(tabId, eventType) ==
  /\ Len(delivered) < MaxEvents
  /\ LET details == [tabId |-> tabId]
         invoked == eventType \in listeners
         matches == invoked /\ fireAndForget(details, waiting.tabId)
     IN /\ delivered' = Append(delivered,
                               [tabId |-> tabId, eventType |-> eventType,
                                called |-> called # "none", invoked |-> invoked])
        /\ listeners' = IF matches THEN listeners \ {eventType} ELSE listeners
        /\ resolved' = IF matches THEN resolved + 1 ELSE resolved
  /\ UNCHANGED <<waiting, called>>
  /\ UNCHANGED <<arrayArg, predicateArg, callbackArg, result>>
  /\ UNCHANGED commandVars

NextNavigation ==
  \/ \E tabId \in TabIds, eventType \in EventTypes : WaitForNavigation(tabId, eventType)
  \/ \E tabId \in TabIds, eventType \in EventTypes : Deliver(tabId, eventType)

SpecNavigation == InitNavigation /\ [][NextNavigation]_vars

\* ------------------------------------------------------------ properties
Done == pc = "done"
HighlightedIds(s) == {s[i].id : i \in {j \in 1..Len(s) : s[j].highlighted}}
IdsOf(s) == {s[i].id : i \in 1..Len(s)}
IsMutation(c) ==
  c.op \in {"tabs.move", "tabGroups.move", "tabs.group", "tabs.ungroup",
            "tabs.update", "windows.update", "tabs.highlight"}
Mutations(calls) == SelectSeq(calls, IsMutation)
\* The snapshot the command's queries returned.
SnapTabs == TabsOfWindow(snap, SourceWindow)
ToOtherWindow == cmd.name = "moveTabsToWindow" /\ cmd.windowId # cx.windowId
MembersInOrder(s, g) == SelectSeq(s, LAMBDA t : t.groupId = g)

\* C1: once every call a move command issued has been applied, the tabs of
\* every group occupy contiguous positions of their window.
C1_GroupsStayContiguous ==
  Done => \A w \in WindowIds : GroupsContiguous(windows[w])

C1_Witness ==
  /\ Done
  /\ \E i \in 1..Len(issued) :
       issued[i].op \in {"tabs.move", "tabGroups.move", "tabs.group", "tabs.ungroup"}
  /\ \E w \in WindowIds : \E g \in GroupIdsOf(windows[w]) :
       Cardinality(GroupPositions(windows[w], g)) >= 2
  /\ windows # snap

\* C2: the tabs highlighted once the command has completed are the tabs that
\* were highlighted when it started (in the destination window, for a move to
\* another window).
C2_SelectionPreserved ==
  Done =>
    HighlightedIds(windows[IF ToOtherWindow THEN cmd.windowId ELSE SourceWindow])
      = HighlightedIds(snap[SourceWindow])

\* The tab selections of the other tabs that the loop of moveTabDirection
\* reaches in the snapshot: none once the pinned tabs threw, and none after
\* the first selection that throws.
ReachedSelections ==
  LET sels == loopSelections(
                spliceBoundary(chunk(sliceOther(SnapTabs), isSelected), cmd.direction))
      throws == {i \in 1..Len(sels) :
                   moveSelection(SnapTabs, collapsed, cmd.direction, sels[i]).thrown}
      last == IF throws = {} THEN Len(sels)
              ELSE CHOOSE i \in throws : \A j \in throws : i <= j
  IN IF cmd.name # "moveTabDirection" \/ movePinnedTabs(SnapTabs, cmd.direction).thrown
     THEN <<>>
     ELSE SubSeq(sels, 1, last)
\* The calls the command issued for one reached selection.
SelectionCalls(sel) ==
  LET calls == moveSelection(SnapTabs, collapsed, cmd.direction, sel).calls
  IN SelectSeq(calls, LAMBDA c : c \in Range(issued))
TargetOf(sel) == targetTabOf(SnapTabs, sel, cmd.direction)
AnchorOf(sel) == anchorTabOf(sel, cmd.direction)
SnapGroupOf(id) == snap[SourceWindow][PosOf(snap[SourceWindow], id)].groupId
AllUngrouped(sel) == \A i \in 1..Len(sel) : sel[i].groupId = TAB_GROUP_ID_NONE
InOneGroup(sel) ==
  sel[1].groupId # TAB_GROUP_ID_NONE /\ \A i \in 1..Len(sel) : sel[i].groupId = sel[1].groupId
IsWholeGroup(sel) ==
  InOneGroup(sel) /\ Len(sel) = Len(tabsByGroup(SnapTabs, sel[1].groupId))
IsPartOfGroup(sel) ==
  InOneGroup(sel) /\ Len(sel) < Len(tabsByGroup(SnapTabs, sel[1].groupId))

\* C3: when the target tab of a reached selection is in a collapsed group,
\* no call issued for the selection adds tabs to that group or ungroups tabs
\* of that group.
C3_CollapsedGroupUntouched ==
  \A k \in 1..Len(ReachedSelections) :
    LET sel == ReachedSelections[k]
        g == TargetOf(sel).groupId
        calls == SelectionCalls(sel)
    IN (g # TAB_GROUP_ID_NONE /\ collapsed[g]) =>
         \A i \in 1..Len(calls) :
           /\ ~(calls[i].op = "tabs.group" /\ calls[i].groupId = g)
           /\ ~(calls[i].op = "tabs.ungroup"
                /\ \E id \in Range(calls[i].tabIds) : SnapGroupOf(id) = g)

\* The only selected chunk of a region, if any, is its outermost chunk in the
\* direction of travel.
OnlyAtBoundary(region, direction) ==
  LET chunks == chunk(region, isSelected)
  IN \A k \in 1..Len(chunks) :
       chunks[k][1] => k = (IF direction = Backward THEN 1 ELSE Len(chunks))

\* C4: when every selected run already touches the boundary of its region in
\* the direction of travel, moveTabDirection issues no move, group or
\* ungroup call.
C4_BoundaryIsNoOp ==
  (/\ cmd.name = "moveTabDirection"
   /\ OnlyAtBoundary(slicePinned(SnapTabs), cmd.direction)
   /\ OnlyAtBoundary(sliceOther(SnapTabs), cmd.direction))
  => Mutations(issued) = <<>>

\* C5: for a reached selection of ungrouped tabs, or that is one whole
\* group, whose target is ungrouped, the calls issued are exactly one move
\* of the target to the anchor's snapshot index; when it is the window's
\* only selection, its tabs end one position further in the direction of
\* travel, in their groups.
C5_SlideIsOneMove ==
  \A k \in 1..Len(ReachedSelections) :
    LET sel == ReachedSelections[k]
    IN (/\ TargetOf(sel).groupId = TAB_GROUP_ID_NONE
        /\ AllUngrouped(sel) \/ IsWholeGroup(sel))
       => /\ SelectionCalls(sel) = <<TabsMove(TargetOf(sel).id, AnchorOf(sel).index)>>
          /\ (Done /\ HighlightedIds(snap[SourceWindow]) = {sel[i].id : i \in 1..Len(sel)})
             => \A i \in 1..Len(sel) :
                  /\ PosOf(windows[SourceWindow], sel[i].id) - 1
                       = sel[i].index + focusOffset(cmd.direction)
                  /\ TabById(windows, sel[i].id).groupId = sel[i].groupId

\* C6: for a reached selection inside one group that has unselected members
\* too, whose target is ungrouped, the calls issued hold an ungroup of the
\* selection's tabs and, after it, a move of the target to the anchor's
\* snapshot index.
C6_SplitThenSlide ==
  \A k \in 1..Len(ReachedSelections) :
    LET sel == ReachedSelections[k]
        calls == SelectionCalls(sel)
    IN (TargetOf(sel).groupId = TAB_GROUP_ID_NONE /\ IsPartOfGroup(sel))
       => \E i, j \in 1..Len(calls) :
            /\ i < j
            /\ calls[i].op = "tabs.ungroup"
            /\ Range(calls[i].tabIds) = {sel[n].id : n \in 1..Len(sel)}
            /\ calls[j] = TabsMove(TargetOf(sel).id, AnchorOf(sel).index)

\* The groups of the snapshot whose tabs are all highlighted.
FullySelectedGroups ==
  {g \in GroupIdsOf(snap[SourceWindow]) :
     \A i \in GroupPositions(snap[SourceWindow], g) : snap[SourceWindow][i].highlighted}
MovesOfTab(id) ==
  {i \in 1..Len(issued) : issued[i].op = "tabs.move" /\ issued[i].tabIds = <<id>>}
MovesOfGroup(g) ==
  {i \in 1..Len(issued) : issued[i].op = "tabGroups.move" /\ issued[i].groupId = g}
MemberIds(s, g) == [i \in 1..Len(MembersInOrder(s, g)) |-> MembersInOrder(s, g)[i].id]
SnapPinnedCount == PinnedCount(snap[SourceWindow])

\* C7: moveTabFirst moves every fully selected group as a group, to the
\* index that follows the pinned tabs and to no other; once the command has
\* completed the group's tabs are the same tabs in the same order, contiguous
\* and after the pinned tabs, which still begin the window.
C7_WholeGroupAfterPinned ==
  (cmd.name = "moveTabEdgeDirection" /\ cmd.direction = Backward) =>
    \A g \in FullySelectedGroups :
      /\ MovesOfGroup(g) # {}
      /\ \A i \in MovesOfGroup(g) : issued[i] = TabGroupsMove(g, SnapPinnedCount)
      /\ \A id \in Range(MemberIds(snap[SourceWindow], g)) : MovesOfTab(id) = {}
      /\ Done =>
           /\ outcome = "resolved"
           /\ MemberIds(windows[SourceWindow], g) = MemberIds(snap[SourceWindow], g)
           /\ Contiguous(windows[SourceWindow], g)
           /\ \A i \in GroupPositions(windows[SourceWindow], g) : i > SnapPinnedCount
           /\ PinnedPrefix(windows[SourceWindow])
           /\ PinnedCount(windows[SourceWindow]) = SnapPinnedCount

C7_Witness ==
  /\ Done
  /\ cmd.name = "moveTabEdgeDirection" /\ cmd.direction = Backward
  /\ SnapPinnedCount >= 1
  /\ \E g \in FullySelectedGroups :
       /\ Cardinality(GroupPositions(snap[SourceWindow], g)) >= 2
       /\ SnapPinnedCount + 1 \notin GroupPositions(snap[SourceWindow], g)
       /\ SnapPinnedCount + 1 \in GroupPositions(windows[SourceWindow], g)

\* C8: moveTabsToWindow to the window of the initiating tab issues no host
\* call, query or mutation, and changes nothing.
C8_SameWindowIsNoOp ==
  (cmd.name = "moveTabsToWindow" /\ cmd.windowId = cx.windowId) =>
    /\ issued = <<>>
    /\ pending = <<>>
    /\ windows = snap
    /\ focused = SourceWindow
    /\ Done /\ outcome = "resolved"

C8_Witness ==
  /\ Done
  /\ cmd.name = "moveTabsToWindow" /\ cmd.windowId = cx.windowId
  /\ Cardinality(HighlightedIds(windows[SourceWindow])) >= 2

\* C9: once moveTabsToWindow to another window has completed, every tab that
\* was pinned and highlighted is in the destination window, pinned; no moved
\* tab that was unpinned is pinned.
C9_PinnedStayPinned ==
  (Done /\ ToOtherWindow) =>
    \A i \in 1..Len(snap[SourceWindow]) :
      LET t == snap[SourceWindow][i]
      IN /\ (t.pinned /\ t.highlighted) =>
              /\ HasTab(windows[cmd.windowId], t.id)
              /\ TabById(windows, t.id).pinned
         /\ (~t.pinned /\ HasTab(windows[cmd.windowId], t.id)) =>
              ~TabById(windows, t.id).pinned

C9_Witness ==
  /\ Done /\ ToOtherWindow
  /\ \E i, j \in 1..Len(snap[SourceWindow]) :
       /\ snap[SourceWindow][i].pinned /\ snap[SourceWindow][i].highlighted
       /\ ~snap[SourceWindow][j].pinned /\ snap[SourceWindow][j].highlighted
       /\ TabById(windows, snap[SourceWindow][i].id).pinned
       /\ HasTab(windows[cmd.windowId], snap[SourceWindow][j].id)

\* C10: in moveTabsToWindow, a run of unpinned tabs of one real group that
\* is all highlighted is moved by one group move and its tabs are in the
\* destination, still in that group; of any other run the highlighted tabs
\* are moved by one tab move each and the others stay in the source window.
C10_GroupOrTabsMove ==
  (Done /\ ToOtherWindow) =>
    LET chunks == chunk(sliceOther(SnapTabs), byGroup)
    IN \A k \in 1..Len(chunks) :
         LET g == chunks[k][1]
             tabs == chunks[k][2]
         IN IF g # TAB_GROUP_ID_NONE /\ \A i \in 1..Len(tabs) : tabs[i].highlighted
            THEN /\ Cardinality(MovesOfGroup(g)) = 1
                 /\ \A i \in MovesOfGroup(g) : issued[i].windowId = cmd.windowId
                 /\ \A i \in 1..Len(tabs) :
                      /\ MovesOfTab(tabs[i].id) = {}
                      /\ HasTab(windows[cmd.windowId], tabs[i].id)
                      /\ TabById(windows, tabs[i].id).groupId = g
            ELSE /\ MovesOfGroup(g) = {}
                 /\ \A i \in 1..Len(tabs) :
                      IF tabs[i].highlighted
                      THEN /\ Cardinality(MovesOfTab(tabs[i].id)) = 1
                           /\ \A m \in MovesOfTab(tabs[i].id) :
                                issued[m].windowId = cmd.windowId
                           /\ HasTab(windows[cmd.windowId], tabs[i].id)
                      ELSE /\ MovesOfTab(tabs[i].id) = {}
                           /\ HasTab(windows[SourceWindow], tabs[i].id)
                           /\ TabById(windows, tabs[i].id).groupId = g

C10_Witness ==
  /\ Done /\ ToOtherWindow
  /\ \E g \in FullySelectedGroups :
       /\ Cardinality(GroupPositions(windows[cmd.windowId], g)) >= 2
       /\ MovesOfGroup(g) # {}
  /\ \E i, j \in 1..Len(snap[SourceWindow]) :
       /\ snap[SourceWindow][i].groupId = snap[SourceWindow][j].groupId
       /\ snap[SourceWindow][i].groupId # TAB_GROUP_ID_NONE
       /\ snap[SourceWindow][i].highlighted /\ ~snap[SourceWindow][j].highlighted
       /\ HasTab(windows[cmd.windowId], snap[SourceWindow][i].id)
       /\ HasTab(windows[SourceWindow], snap[SourceWindow][j].id)

\* The tabs of the snapshot's source window that are in the destination.
MovedIds == IdsOf(snap[SourceWindow]) \cap IdsOf(windows[cmd.windowId])

\* C11: once moveTabsToWindow to another window has completed, the
\* destination window is focused and its highlighted tabs are exactly the
\* tabs the command moved together with the initiating tab; no tab that was
\* already in the destination is highlighted.
C11_MovedTabsSelected ==
  (Done /\ ToOtherWindow) =>
    /\ focused = cmd.windowId
    /\ HighlightedIds(windows[cmd.windowId]) = MovedIds \cup {cx.tabId}
    /\ HighlightedIds(windows[cmd.windowId]) \cap IdsOf(snap[cmd.windowId]) = {}

\* C12: partition returns the elements that satisfy the predicate and the
\* elements that do not, each in the order of the array: every element
\* occurrence is in exactly one of the two.
C12_PartitionIsStableSplit ==
  called = "partition" =>
    /\ Len(result) = 2
    /\ result[1] = SelectSeq(arrayArg, LAMBDA e : e \in DOMAIN predicateArg /\ predicateArg[e])
    /\ result[2] = SelectSeq(arrayArg, LAMBDA e : ~(e \in DOMAIN predicateArg /\ predicateArg[e]))
    /\ Len(result[1]) + Len(result[2]) = Len(arrayArg)
    /\ \A e \in Elements :
         Cardinality({i \in 1..Len(result[1]) : result[1][i] = e})
           + Cardinality({i \in 1..Len(result[2]) : result[2][i] = e})
         = Cardinality({i \in 1..Len(arrayArg) : arrayArg[i] = e})

C12_Witness ==
  /\ called = "partition"
  /\ Len(arrayArg) >= 3
  /\ Len(result[1]) >= 1
  /\ Len(result[2]) >= 2
  /\ \E i \in 1..Len(arrayArg) : arrayArg[i] \notin DOMAIN predicateArg

\* C13: chunk returns runs that concatenate to the array, each non-empty
\* with all its elements classified to the run's key, adjacent runs having
\* different keys.
C13_ChunkIsRunLengthSplit ==
  called = "chunk" =>
    /\ result # TypeError
    /\ Flatten([k \in 1..Len(result) |-> result[k][2]]) = arrayArg
    /\ \A k \in 1..Len(result) :
         /\ result[k][2] # <<>>
         /\ \A i \in 1..Len(result[k][2]) :
              keyOf(callbackArg, result[k][2][i]) = result[k][1]
    /\ \A k \in 1..(Len(result) - 1) : result[k][1] # result[k + 1][1]

\* C14: partition and chunk return a result for every array, the empty one
\* too, and every value the predicate or callback returns, undefined too.
C14_UtilsAreTotal ==
  /\ called = "partition" => Len(result) = 2
  /\ called = "chunk" => result # TypeError

\* The calls moveTabsToWindow makes after `await Promise.all`.
IsSelectCall(c) == c.op \in {"tabs.get", "windows.update", "tabs.highlight"}
Occurrences(calls, c) == Cardinality({i \in 1..Len(calls) : calls[i] = c})

\* C15 as stated: once a host call of a move command has failed, no call of
\* the command is applied to the host any more, and the command's promise
\* is rejected.
C15_FailureAbandonsTheRest ==
  /\ [][rejected # <<>> => (windows' = windows /\ focused' = focused)]_vars
  /\ [](rejected # <<>> => outcome = "rejected")

\* C15: when a host call of a move command fails, the command's promise is
\* rejected and the failed call is not made again; the calls the command
\* had issued with it are still applied, none is undone; only what follows
\* the awaited calls is abandoned: no tab is pinned after a pinned tab's
\* move failed, and the destination is neither focused nor selected.
C15_FailureIsPropagated ==
  rejected # <<>> =>
    /\ outcome = "rejected"
    /\ \A j \in 1..Len(rejected) : Occurrences(issued, rejected[j]) = 1
    /\ Done => pending = <<>>
    /\ (\E j \in 1..Len(rejected) : ~IsSelectCall(rejected[j]))
         => \A i \in 1..Len(issued) : ~IsSelectCall(issued[i])
    /\ (\E j \in 1..Len(rejected) :
           rejected[j].op = "tabs.move" /\ rejected[j].slot = pinnedSlot)
         => \A i \in 1..Len(issued) : issued[i].op # "tabs.update"

\* The first call a command issued was rejected, and a call issued with it
\* has changed the windows since.
C15_Witness ==
  /\ Done
  /\ Len(rejected) = 1
  /\ Mutations(issued) # <<>>
  /\ rejected[1] = Mutations(issued)[1]
  /\ Len(Mutations(issued)) >= 2
  /\ windows # snap

\* The tabs of the snapshot that are not in a collapsed group.
VisibleTabs ==
  SelectSeq(SnapTabs, LAMBDA t : t.groupId = TAB_GROUP_ID_NONE \/ ~collapsed[t.groupId])
Activations == SelectSeq(issued, LAMBDA c : c.op = "tabs.activate")

\* C16: focusNextTab and focusPreviousTab activate one tab whenever the
\* window has a visible tab: never a tab of a collapsed group, and the next
\* or previous visible tab, wrapping around, when the current tab is
\* visible.
C16_FocusRelativeActivatesVisible ==
  (Done /\ cmd.name \in {"focusNextTab", "focusPreviousTab"} /\ VisibleTabs # <<>>) =>
    /\ outcome = "resolved"
    /\ Len(Activations) = 1
    /\ \E k \in 1..Len(VisibleTabs) :
         /\ Activations[1].tabIds = <<VisibleTabs[k].id>>
         /\ \A p \in 1..Len(VisibleTabs) :
              VisibleTabs[p].id = cx.tabId =>
                k = ((p - 1 + cmd.direction + Len(VisibleTabs)) % Len(VisibleTabs)) + 1

\* The selected runs the loop of moveTabDirection visits in a region of the
\* snapshot, once the boundary chunk has been dropped.
SelectedRuns(region) ==
  loopSelections(spliceBoundary(chunk(region, isSelected), cmd.direction))
TargetIndexOf(sel) == focusTabOf(sel, cmd.direction).index + focusOffset(cmd.direction)
HasTarget(sel) ==
  /\ TargetIndexOf(sel) >= 0
  /\ TargetIndexOf(sel) < Len(SnapTabs)
  /\ ~SnapTabs[TargetIndexOf(sel) + 1].highlighted
  /\ SnapTabs[TargetIndexOf(sel) + 1].pinned = focusTabOf(sel, cmd.direction).pinned

\* C17: in moveTabDirection, for every selected run of the pinned tabs and of
\* the other tabs that is left once the boundary chunk is dropped, the index
\* focusTab.index + focusOffset is an index of the snapshot, and the tab
\* there is not highlighted and is pinned exactly if the run is.
C17_TargetExists ==
  cmd.name = "moveTabDirection" =>
    /\ \A k \in 1..Len(SelectedRuns(slicePinned(SnapTabs))) :
         HasTarget(SelectedRuns(slicePinned(SnapTabs))[k])
    /\ \A k \in 1..Len(SelectedRuns(sliceOther(SnapTabs))) :
         HasTarget(SelectedRuns(sliceOther(SnapTabs))[k])

\* The pinned tabs have a selected run left, of two tabs, and the boundary
\* chunk of the other tabs was dropped.
C17_Witness ==
  /\ cmd.name = "moveTabDirection"
  /\ SelectedRuns(slicePinned(SnapTabs)) # <<>>
  /\ Len(SelectedRuns(slicePinned(SnapTabs))[1]) = 2
  /\ isBoundarySelected(chunk(sliceOther(SnapTabs), isSelected), cmd.direction)

\* The calls that changed the host, among those the command issued, that
\* name a tab of the selection.
CallsNaming(sel) ==
  SelectSeq(Mutations(issued),
            LAMBDA c : Range(c.tabIds) \cap {sel[i].id : i \in 1..Len(sel)} # {})
\* A selection of ungrouped tabs whose target is in a group that is not
\* collapsed.
MergesIntoNeighbor(sel) ==
  /\ AllUngrouped(sel)
  /\ TargetOf(sel).groupId # TAB_GROUP_ID_NONE
  /\ ~collapsed[TargetOf(sel).groupId]

\* C18: for a reached selection of ungrouped tabs whose target tab is in a
\* group that is not collapsed, moveTabDirection issues one
\* chrome.tabs.group call, of the tabs of the selection into the group of
\* the target, and no call that moves a tab of the selection, the target
\* tab or its group.
C18_MergeIntoNeighbor ==
  \A k \in 1..Len(ReachedSelections) :
    LET sel == ReachedSelections[k]
    IN MergesIntoNeighbor(sel) =>
         /\ CallsNaming(sel) = <<TabsGroup(Map(sel, getTabId), TargetOf(sel).groupId)>>
         /\ \A i \in 1..Len(issued) :
              /\ issued[i].op = "tabGroups.move" => issued[i].groupId # TargetOf(sel).groupId
              /\ issued[i].op = "tabs.move" => issued[i].tabIds # <<TargetOf(sel).id>>

\* A selection of two ungrouped tabs was merged into the group of its target.
C18_Witness ==
  /\ Done
  /\ \E k \in 1..Len(ReachedSelections) :
       /\ MergesIntoNeighbor(ReachedSelections[k])
       /\ Len(ReachedSelections[k]) = 2
       /\ \A i \in 1..2 :
            \E w \in WindowIds : \E j \in 1..Len(windows[w]) :
              /\ windows[w][j].id = ReachedSelections[k][i].id
              /\ windows[w][j].groupId = TargetOf(ReachedSelections[k]).groupId

SnapPos(id) == PosOf(snap[SourceWindow], id)
NowPos(id) == PosOf(windows[SourceWindow], id)
\* The tabs of the selection and the tabs of group g have exchanged sides,
\* each tab is in the group it was in, and the tabs of g are contiguous in
\* their order of the snapshot.
ExchangedWithGroup(sel, g) ==
  /\ \A i \in 1..Len(sel) : \A m \in Range(MemberIds(snap[SourceWindow], g)) :
       (SnapPos(sel[i].id) < SnapPos(m)) <=> (NowPos(m) < NowPos(sel[i].id))
  /\ \A i \in 1..Len(sel) :
       windows[SourceWindow][NowPos(sel[i].id)].groupId = SnapGroupOf(sel[i].id)
  /\ MembersInOrder(windows[SourceWindow], g) = MembersInOrder(snap[SourceWindow], g)
  /\ Contiguous(windows[SourceWindow], g)

\* C19: for a reached selection of ungrouped tabs whose target tab is in a
\* collapsed group, moveTabDirection issues one chrome.tabGroups.move of
\* that group and no call naming a tab of the selection; once applied, the
\* selection and the group have exchanged sides, the group is contiguous in
\* its original order and no tab has changed group.
C19_RelocateCollapsedNeighbor ==
  Done =>
    \A k \in 1..Len(ReachedSelections) :
      LET sel == ReachedSelections[k]
          g == TargetOf(sel).groupId
      IN (AllUngrouped(sel) /\ g # TAB_GROUP_ID_NONE /\ collapsed[g]) =>
           /\ Cardinality(MovesOfGroup(g)) = 1
           /\ CallsNaming(sel) = <<>>
           /\ ExchangedWithGroup(sel, g)

\* C20: for a reached selection that is one whole group whose target tab is
\* in another group, moveTabDirection issues a chrome.tabGroups.move of the
\* target's group; once applied, the two groups have exchanged places, each
\* contiguous in its original order, and no tab has changed group.
C20_GroupsExchangePlaces ==
  Done =>
    \A k \in 1..Len(ReachedSelections) :
      LET sel == ReachedSelections[k]
          g == TargetOf(sel).groupId
      IN (IsWholeGroup(sel) /\ g # TAB_GROUP_ID_NONE) =>
           /\ Cardinality(MovesOfGroup(g)) = 1
           /\ ExchangedWithGroup(sel, g)
           /\ MembersInOrder(windows[SourceWindow], sel[1].groupId)
                = MembersInOrder(snap[SourceWindow], sel[1].groupId)
           /\ Contiguous(windows[SourceWindow], sel[1].groupId)

\* A selection inside one group that has other members, whose target tab is
\* in another group.
SplitsFromGroup(sel) ==
  /\ IsPartOfGroup(sel)
  /\ TargetOf(sel).groupId # TAB_GROUP_ID_NONE
  /\ TargetOf(sel).groupId # sel[1].groupId
IsReposition(c) == c.op \in {"tabs.move", "tabGroups.move"}
\* Each tab of the selection is at the position it had in the snapshot and
\* in no group; the target tab is where it was.
UngroupedInPlace(sel) ==
  /\ \A i \in 1..Len(sel) :
       /\ NowPos(sel[i].id) = SnapPos(sel[i].id)
       /\ windows[SourceWindow][NowPos(sel[i].id)].groupId = TAB_GROUP_ID_NONE
  /\ NowPos(TargetOf(sel).id) = SnapPos(TargetOf(sel).id)
  /\ windows[SourceWindow][NowPos(TargetOf(sel).id)].groupId = TargetOf(sel).groupId

\* C21 as stated: for a reached selection inside a partially selected group
\* whose target tab is in another group, moveTabDirection issues an ungroup
\* of the selection and then a tab move or group move as well; afterwards
\* the tabs of the selection are in no group, next to the target's group.
C21_SplitThenRelocate ==
  Done =>
    \A k \in 1..Len(ReachedSelections) :
      LET sel == ReachedSelections[k]
      IN SplitsFromGroup(sel) =>
           /\ CallsNaming(sel) # <<>>
           /\ CallsNaming(sel)[1].op = "tabs.ungroup"
           /\ \E i \in 1..Len(issued) :
                /\ IsReposition(issued[i])
                /\ \/ issued[i].tabIds = <<TargetOf(sel).id>>
                   \/ issued[i].groupId = TargetOf(sel).groupId
                   \/ Range(issued[i].tabIds) \cap Range(Map(sel, getTabId)) # {}
           /\ UngroupedInPlace(sel)

\* C21: for a reached selection inside a partially selected group whose
\* target tab is in another group, moveTabDirection issues one
\* chrome.tabs.ungroup of the tabs of the selection (in reverse order going
\* Forward) and no move of a tab of the selection, of the target tab or of
\* its group; afterwards the tabs of the selection are in no group, where
\* they were: between the target's group and the rest of their group.
C21_SplitOnly ==
  \A k \in 1..Len(ReachedSelections) :
    LET sel == ReachedSelections[k]
        ids == Map(sel, getTabId)
    IN SplitsFromGroup(sel) =>
         /\ CallsNaming(sel) =
              <<TabsUngroup(IF cmd.direction = Forward THEN toReversed(ids) ELSE ids)>>
         /\ \A i \in 1..Len(issued) :
              IsReposition(issued[i]) =>
                /\ issued[i].tabIds # <<TargetOf(sel).id>>
                /\ issued[i].groupId # TargetOf(sel).groupId
         /\ Done => UngroupedInPlace(sel)

\* Two tabs of a group of three were selected and split from it.
C21_Witness ==
  /\ Done
  /\ \E k \in 1..Len(ReachedSelections) :
       /\ SplitsFromGroup(ReachedSelections[k])
       /\ Len(ReachedSelections[k]) = 2
       /\ UngroupedInPlace(ReachedSelections[k])

\* A selection whose focus tab is in the group of the target tab and whose
\* anchor tab is not.
MergesIntoFocusGroup(sel) ==
  /\ TargetOf(sel).groupId # TAB_GROUP_ID_NONE
  /\ focusTabOf(sel, cmd.direction).groupId = TargetOf(sel).groupId
  /\ AnchorOf(sel).groupId # TargetOf(sel).groupId

\* C22: for a reached selection whose focus tab is in the group of the
\* target tab and whose anchor tab is not, moveTabDirection issues one
\* chrome.tabs.group call, of every tab of the selection into that group,
\* and no move of a tab of the selection, of the target tab or of the group:
\* once the command is done each of these tabs is where it was.
C22_MergeIntoFocusGroup ==
  \A k \in 1..Len(ReachedSelections) :
    LET sel == ReachedSelections[k]
        g == TargetOf(sel).groupId
    IN MergesIntoFocusGroup(sel) =>
         /\ CallsNaming(sel) = <<TabsGroup(Map(sel, getTabId), g)>>
         /\ \A i \in 1..Len(issued) :
              IsReposition(issued[i]) =>
                /\ issued[i].tabIds # <<TargetOf(sel).id>>
                /\ issued[i].groupId # g
         /\ Done =>
              /\ NowPos(TargetOf(sel).id) = SnapPos(TargetOf(sel).id)
              /\ \A i \in 1..Len(sel) : NowPos(sel[i].id) = SnapPos(sel[i].id)

\* A selection of an ungrouped tab and a tab of the target's group was
\* merged into that group.
C22_Witness ==
  /\ Done
  /\ \E k \in 1..Len(ReachedSelections) :
       LET sel == ReachedSelections[k]
       IN /\ MergesIntoFocusGroup(sel)
          /\ Len(sel) >= 2
          /\ \A i \in 1..Len(sel) :
               windows[SourceWindow][NowPos(sel[i].id)].groupId = TargetOf(sel).groupId

\* A selection that starts in a group with unselected members and extends
\* beyond it (lines 1638-1651 and 1748-1759).
SpansPartialGroup(sel) ==
  /\ AnchorOf(sel).groupId # TAB_GROUP_ID_NONE
  /\ AnchorOf(sel).groupId # focusTabOf(sel, cmd.direction).groupId
  /\ Len(groupIdToSelPartition(SnapTabs, AnchorOf(sel).groupId)[2]) > 0
  /\ \/ TargetOf(sel).groupId = TAB_GROUP_ID_NONE
     \/ TargetOf(sel).groupId # focusTabOf(sel, cmd.direction).groupId
IsUngroupOf(c, sel) ==
  c.op = "tabs.ungroup" /\ Range(c.tabIds) \cap Range(Map(sel, getTabId)) # {}
IsRepositionFor(c, sel) ==
  /\ IsReposition(c)
  /\ \/ c.tabIds = <<TargetOf(sel).id>>
     \/ (c.op = "tabGroups.move" /\ c.groupId = TargetOf(sel).groupId)

RelocatesNeighborGroup(sel) ==
  /\ TargetOf(sel).groupId # TAB_GROUP_ID_NONE
  /\ \/ AllUngrouped(sel) /\ collapsed[TargetOf(sel).groupId]
     \/ IsWholeGroup(sel)
GroupMovesIssued(g) ==
  SelectSeq(issued, LAMBDA c : c.op = "tabGroups.move" /\ c.groupId = g)

\* C24: going Backward, for a reached selection whose neighbour group is
\* relocated, moveTabDirection issues two chrome.tabGroups.move calls for
\* that group: to the end of the window (index -1), then to the index that
\* follows the anchor tab; the second is not waiting on the host while the
\* first is, and afterwards the group starts right after the anchor tab.
C24_StabilizeThenRelocate ==
  \A k \in 1..Len(ReachedSelections) :
    LET sel == ReachedSelections[k]
        g == TargetOf(sel).groupId
    IN (cmd.direction = Backward /\ RelocatesNeighborGroup(sel)) =>
         /\ Cardinality({i \in 1..Len(pending) :
                           pending[i].op = "tabGroups.move" /\ pending[i].groupId = g}) <= 1
         /\ Done =>
              /\ Len(GroupMovesIssued(g)) = 2
              /\ GroupMovesIssued(g)[1].index = -1
              /\ GroupMovesIssued(g)[2].index = NowPos(AnchorOf(sel).id)
              /\ windows[SourceWindow][NowPos(AnchorOf(sel).id) + 1].groupId = g

\* The groups of the snapshot that have highlighted tabs and other tabs.
PartlySelectedGroups ==
  {g \in GroupIdsOf(snap[SourceWindow]) \ FullySelectedGroups :
     \E i \in GroupPositions(snap[SourceWindow], g) : snap[SourceWindow][i].highlighted}
SelectedMemberIds(g) ==
  {snap[SourceWindow][i].id :
     i \in {j \in GroupPositions(snap[SourceWindow], g) : snap[SourceWindow][j].highlighted}}
\* The snapshot index of the member of g at the edge of the group.
SnapEdgeIndex(g) ==
  LET positions == GroupPositions(snap[SourceWindow], g)
  IN (IF cmd.direction = Backward
      THEN CHOOSE i \in positions : \A j \in positions : i <= j
      ELSE CHOOSE i \in positions : \A j \in positions : i >= j) - 1
\* The highlighted tabs of the snapshot: the tabs the command moves.
MovedBySelection ==
  {snap[SourceWindow][i].id : i \in {j \in 1..Len(snap[SourceWindow]) :
     snap[SourceWindow][j].highlighted}}

\* C25: for a group with highlighted and other tabs, moveTabEdgeDirection
\* moves the highlighted tabs of the group and no other, each to the
\* snapshot index of the group's first (Backward) or last (Forward) tab,
\* and does not move the group; once the command is done the group is
\* contiguous, its highlighted tabs are at its end in the direction of
\* travel, its tabs are those of the snapshot, and each keeps its side of
\* every tab outside the group that the command has not moved.
C25_PartialGroupMovesToOwnEdge ==
  cmd.name = "moveTabEdgeDirection" =>
    \A g \in PartlySelectedGroups :
      /\ MovesOfGroup(g) = {}
      /\ \A id \in Range(MemberIds(snap[SourceWindow], g)) :
           IF id \in SelectedMemberIds(g)
           THEN /\ Cardinality(MovesOfTab(id)) = 1
                /\ \A i \in MovesOfTab(id) : issued[i] = TabsMove(id, SnapEdgeIndex(g))
           ELSE MovesOfTab(id) = {}
      /\ Done =>
           /\ Contiguous(windows[SourceWindow], g)
           /\ Range(MemberIds(windows[SourceWindow], g)) = Range(MemberIds(snap[SourceWindow], g))
           /\ \A a \in SelectedMemberIds(g) :
                \A b \in Range(MemberIds(snap[SourceWindow], g)) \ SelectedMemberIds(g) :
                  IF cmd.direction = Backward THEN NowPos(a) < NowPos(b)
                  ELSE NowPos(b) < NowPos(a)
           /\ \A m \in Range(MemberIds(snap[SourceWindow], g)) :
                \A x \in IdsOf(snap[SourceWindow]) \ MovedBySelection :
                  SnapGroupOf(x) # g =>
                    ((SnapPos(m) < SnapPos(x)) <=> (NowPos(m) < NowPos(x)))

\* A group of three tabs, two of them highlighted and not at the group's
\* edge, and an unselected tab outside the group: the command is done.
C25_Witness ==
  /\ Done
  /\ cmd.name = "moveTabEdgeDirection"
  /\ \E g \in PartlySelectedGroups :
       /\ Cardinality(SelectedMemberIds(g)) = 2
       /\ Cardinality(GroupPositions(snap[SourceWindow], g)) = 3
       /\ snap[SourceWindow][SnapEdgeIndex(g) + 1].id \notin SelectedMemberIds(g)
       /\ \E x \in IdsOf(snap[SourceWindow]) \ MovedBySelection : SnapGroupOf(x) # g
       /\ windows # snap

SnapPinnedIds == {snap[SourceWindow][i].id : i \in 1..SnapPinnedCount}
\* The index a call names, as a position of the snapshot: -1 is the last.
NamedIndex(c) == IF c.index = -1 THEN Len(snap[SourceWindow]) - 1 ELSE c.index
PinnedStayFirst ==
  /\ PinnedPrefix(windows[SourceWindow])
  /\ {windows[SourceWindow][i].id : i \in 1..PinnedCount(windows[SourceWindow])}
       = SnapPinnedIds

\* C26 as stated: every move moveTabEdgeDirection issues names an index
\* inside the region of what it moves: an index of the pinned prefix for a
\* pinned tab, an index after the pinned prefix for any other tab and for a
\* group; afterwards the pinned tabs are the first tabs of the window.
C26_MovesNameOwnRegion ==
  cmd.name = "moveTabEdgeDirection" =>
    /\ \A i \in 1..Len(issued) :
         /\ issued[i].op = "tabs.move" =>
              (issued[i].tabIds[1] \in SnapPinnedIds
                 <=> NamedIndex(issued[i]) < SnapPinnedCount)
         /\ issued[i].op = "tabGroups.move" => NamedIndex(issued[i]) >= SnapPinnedCount
    /\ Done => PinnedStayFirst

\* C26: moveTabEdgeDirection names an index after the pinned prefix for
\* every group it moves (the number of pinned tabs going Backward, -1 going
\* Forward); for a tab of no group, pinned or not, it names index 0 going
\* Backward and -1 going Forward, whatever the region of the tab, and for a
\* tab of a partly selected group the index of the group's edge. No call
\* fails, and once the host has applied them the pinned tabs of the
\* snapshot are still the first tabs of the window.
C26_HostKeepsRegions ==
  cmd.name = "moveTabEdgeDirection" =>
    /\ \A i \in 1..Len(issued) :
         /\ issued[i].op = "tabGroups.move" =>
              issued[i].index = (IF cmd.direction = Backward THEN SnapPinnedCount ELSE -1)
         /\ (issued[i].op = "tabs.move"
               /\ SnapGroupOf(issued[i].tabIds[1]) = TAB_GROUP_ID_NONE) =>
              issued[i].index = (IF cmd.direction = Backward THEN 0 ELSE -1)
         /\ (issued[i].op = "tabs.move"
               /\ SnapGroupOf(issued[i].tabIds[1]) # TAB_GROUP_ID_NONE) =>
              issued[i].index = SnapEdgeIndex(SnapGroupOf(issued[i].tabIds[1]))
    /\ rejected = <<>>
    /\ Done => (outcome = "resolved" /\ PinnedStayFirst)

\* Going Backward past pinned tabs: a pinned tab, a tab that is not pinned
\* and a group were moved.
C26_Witness ==
  /\ Done
  /\ cmd.name = "moveTabEdgeDirection"
  /\ cmd.direction = Backward
  /\ SnapPinnedCount >= 2
  /\ \E i, j \in 1..Len(issued) :
       /\ issued[i].op = "tabs.move" /\ issued[i].tabIds[1] \in SnapPinnedIds
       /\ issued[j].op = "tabs.move" /\ issued[j].tabIds[1] \notin SnapPinnedIds
       /\ issued[j].index = 0
  /\ windows # snap

\* The selected runs of both regions of the snapshot.
AllSelectedRuns ==
  SelectedRuns(slicePinned(SnapTabs)) \o SelectedRuns(sliceOther(SnapTabs))
\* Where a tab of the snapshot is once every run has gone one step past its
\* target: a tab of a run takes a step, a target takes the place of the
\* anchor of its run, any other tab stays.
SlidPos(id) ==
  LET runsOf == {k \in 1..Len(AllSelectedRuns) :
                   id \in Range(Map(AllSelectedRuns[k], getTabId))}
      targetOf == {k \in 1..Len(AllSelectedRuns) : TargetOf(AllSelectedRuns[k]).id = id}
  IN IF runsOf # {} THEN SnapPos(id) + focusOffset(cmd.direction)
     ELSE IF targetOf # {}
     THEN AnchorOf(AllSelectedRuns[CHOOSE k \in targetOf : TRUE]).index + 1
     ELSE SnapPos(id)

\* C27: in a window without groups, where every selected run of
\* moveTabDirection slides past its target by one tab move, the tabs end in
\* the order in which every run has gone one step past its target and the
\* other tabs have kept their order.
C27_SlidesCommute ==
  (Done /\ cmd.name = "moveTabDirection" /\ GroupIdsOf(snap[SourceWindow]) = {}) =>
    \A id \in IdsOf(snap[SourceWindow]) : NowPos(id) = SlidPos(id)

\* C28: for every selected run of the other tabs that moveTabDirection
\* reaches, a branch of the chain applies and issues a call: a call that
\* names a tab of the run, its target tab or the group of its target.
C28_EveryRunHasABranch ==
  (Done /\ cmd.name = "moveTabDirection") =>
    \A k \in 1..Len(ReachedSelections) :
      LET sel == ReachedSelections[k]
      IN \/ CallsNaming(sel) # <<>>
         \/ \E i \in 1..Len(issued) : IsRepositionFor(issued[i], sel)

\* Two highlighted tabs of the snapshot, at positions i < j, that
\* moveTabEdgeDirection hands to one moveTabs call: two pinned tabs, two
\* tabs of one chunk of ungrouped tabs, or two tabs of a partly selected
\* group.
InOneBatch(i, j) ==
  LET s == snap[SourceWindow]
  IN /\ i < j
     /\ s[i].highlighted /\ s[j].highlighted
     /\ \/ s[i].pinned /\ s[j].pinned
        \/ /\ ~s[i].pinned /\ ~s[j].pinned
           /\ \A k \in i..j : s[k].groupId = s[i].groupId
           /\ s[i].groupId \notin FullySelectedGroups

\* C29: once moveTabEdgeDirection is done, two tabs that one moveTabs call
\* moved are in the order they had in the snapshot.
C29_BatchKeepsOrder ==
  (Done /\ cmd.name = "moveTabEdgeDirection") =>
    \A i, j \in 1..Len(snap[SourceWindow]) :
      InOneBatch(i, j) =>
        NowPos(snap[SourceWindow][i].id) < NowPos(snap[SourceWindow][j].id)

\* The events delivered after the call, of the type and the tab the call
\* waits for.
MatchingEvents ==
  {k \in 1..Len(delivered) :
     /\ delivered[k].called
     /\ delivered[k].eventType = waiting.eventType
     /\ delivered[k].tabId = waiting.tabId}
FirstMatch == CHOOSE k \in MatchingEvents : \A j \in MatchingEvents : k <= j

\* C30: the promise of waitForNavigation is resolved once, by the first
\* event of its type and its tab delivered after the call, and fireAndForget
\* is a listener until then: every event of the type up to that one invokes
\* it, events of other tabs leave it a listener and the promise pending, and
\* no event after the first match invokes it.
C30_ResolvesAtFirstMatch ==
  called = "waitForNavigation" =>
    /\ resolved = (IF MatchingEvents = {} THEN 0 ELSE 1)
    /\ listeners = (IF MatchingEvents = {} THEN {waiting.eventType} ELSE {})
    /\ \A k \in 1..Len(delivered) :
         delivered[k].invoked <=>
           /\ delivered[k].called
           /\ delivered[k].eventType = waiting.eventType
           /\ (MatchingEvents # {} => k <= FirstMatch)

\* An event of another tab, then the event waited for, then the same event
\* once more: the promise is resolved.
C30_Witness ==
  /\ called = "waitForNavigation"
  /\ Len(delivered) = 3
  /\ \A k \in 1..3 : delivered[k].called /\ delivered[k].eventType = waiting.eventType
  /\ delivered[1].tabId # waiting.tabId
  /\ delivered[2].tabId = waiting.tabId
  /\ delivered[3].tabId = waiting.tabId
  /\ resolved = 1

====
